---- MODULE Spec2Model ----
(***************************************************************************)
(* Model of the two R2-bench binaries.  The microbenchmark (the            *)
(* BenchmarkRunner): the controller goroutine running runBenchmark, the    *)
(* worker goroutines of every phase and ramp step, the phase monitors, the *)
(* result collector, the signal handler goroutine and the ParquetWriter    *)
(* behind the collector.  The validity check: main, runCapacityDiscovery,  *)
(* the workers of every level and its result collector.                    *)
(*                                                                         *)
(* Workers of one phase/step are interchangeable, so a pool keeps the      *)
(* number of workers standing at the head of their loop and the requests   *)
(* in flight are kept one by one.  Wall-clock time is abstracted to one    *)
(* flag per pool: whether time.Now() has passed the pool's endTime.        *)
(***************************************************************************)
EXTENDS Integers, Sequences, FiniteSets, Bags, TLC

\* ------------------------------------------------------------------ bounds

\* Width of Go's int in the model (the build's int has 64 bits).
IntBits == 7
\* Requests the workers of one run may issue in total.
MaxRequests == 2
\* Capacity of the results channel in the model (the code makes 10000).
ChanCap == 1
\* Batch size of the ParquetWriter in the model (the code passes 1000).
BatchSize == 2
\* Results handed to the collector one by one in SpecExporter: enough for a
\* batch whose flush failed to grow past BatchSize.
MaxWrites == 3
\* Length of the generated URLs, and of the generated substrings looked for
\* in them.
\* Monitors in the same state that are told apart: further ones are not
\* tracked (a ramp whose level wraps around starts monitors without end).
MaxMonitorCopies == 2
MaxUrlLen == 4
MaxSubLen == 2

\* ------------------------------------------------------- program constants

\* findOptimalConcurrency's fixed answer.
DefaultOptimalConcurrency == 50
\* HTTPStatus values a worker writes into a RequestResult.
StatusOK == 200
StatusError == 500

\* ------------------------------------------------------------ Go integers

MaxInt == 2 ^ (IntBits - 1) - 1
MinInt == -(2 ^ (IntBits - 1))

\* Go's int addition: two's complement wrap-around.
WrapInt(x) == ((x - MinInt) % (2 ^ IntBits)) + MinInt

\* =========================================================================
\* State
\* =========================================================================
VARIABLES
    cfg,           \* flags + Config: read-only after initializeBenchmark
    pc,            \* position of the main goroutine (main / runBenchmark / cleanup)
    phase,         \* phase the controller is in
    cur,           \* runRampUp's currentConcurrency
    prevLevel,     \* level of the ramp step completed before the current one
    steadyConc,    \* optimalConcurrency handed to the steady-state runPhase
    exitCode,      \* process exit status, -1 while running
    stopChan,      \* "open" / "closed"
    sigChan,       \* signals buffered in sigChan (capacity 1)
    handlerPc,     \* the signal goroutine: "wait" / "done"
    stoppedIn,     \* phase the controller was in when stopChan was closed
    pools,         \* live worker pools: <<[phase, conc, ready, expired]>>
    inflight,      \* requests inside client.GetObjectRange
    issued,        \* requests issued so far
    results,       \* contents of the results channel
    resultsClosed, \* close(br.results) has run
    colPc,         \* collectResults: "off" / "recv" / "write" / "record" / "done"
    colCur,        \* the result collectResults holds in its loop body
    pwBuf,         \* ParquetWriter.results (the batch)
    pwFile,        \* rows written through writer.Write before WriteStop
    pwLate,        \* rows handed to the writer after WriteStop
    pwClosed,      \* writer.WriteStop has run and returned no error
    pwFileClosed,  \* file.Close has run and returned no error
    pwCloseErr,    \* what ParquetWriter.Close returned: "" before the call
    promRequests,  \* qpsCounter, summed over labels
    promErrors,    \* errorCounter, by error_type and summed over the other labels
    monitors,      \* bag of the monitorPhase goroutines: [conc, pool, expired, at, sample]
    gauges,        \* concurrency, CPU and network gauges of the exporter
    binary,        \* the program that runs: "microbenchmark" / "validity"
    backend,       \* the storage client chosen from the URL, and what contains found
    objectCheck,   \* what client.ObjectExists returned: "none" before the call
    uploads,       \* calls of client.UploadObject so far
    obs            \* history of the run: levels run, throughput the backend
                   \* showed, whether a writer.Write has returned an error

vars == <<cfg, pc, phase, cur, prevLevel, steadyConc, exitCode,
          stopChan, sigChan, handlerPc, stoppedIn, pools, inflight, issued, results,
          resultsClosed, colPc, colCur, pwBuf, pwFile, pwLate, pwClosed,
          pwFileClosed, pwCloseErr,
          promRequests, promErrors, monitors, gauges, binary, backend,
          objectCheck, uploads, obs>>

ctlVars == <<pc, phase, cur, prevLevel, steadyConc, exitCode>>
sigVars == <<stopChan, sigChan, handlerPc, stoppedIn>>
workVars == <<pools, inflight, issued>>
chanVars == <<results, resultsClosed>>
colVars == <<colPc, colCur>>
pwVars == <<pwBuf, pwFile, pwLate, pwClosed, pwFileClosed, pwCloseErr>>
pwEndVars == <<pwClosed, pwFileClosed, pwCloseErr>>
promVars == <<promRequests, promErrors>>
monVars == <<monitors, gauges>>
chkVars == <<binary, backend, objectCheck, uploads>>

NoResult == [id |-> 0]
\* The error counter before any request has been recorded.
NoErrors == [request_error |-> 0, http_error |-> 0]
NoLevel == MinInt - 1

\* The gauges before any tick of a monitor: conc is the value of the
\* concurrency gauge; cpu and net tell from what kind of sample the CPU and
\* the network gauges were last set; throughput tells whether the throughput
\* gauge has been set.
NoGauges == [conc |-> NoLevel, cpu |-> "unset", net |-> "unset",
             throughput |-> "unset"]

\* =========================================================================
\* Configurations and the backend
\* =========================================================================

\* No client yet: main has not chosen the backend.
NoBackend == [kind |-> "none", region |-> "", found |-> "none"]

\* The client of the runs that start after initializeBenchmark: the S3 client
\* of the default region.
DefaultBackend == [kind |-> "s3", region |-> "us-east-1", found |-> "none"]

\* s[lo:hi] of Go, and whether its bounds are in range (the slice expression
\* panics when they are not).
Slice(s, lo, hi) == SubSeq(s, lo + 1, hi)

SliceInRange(s, lo, hi) == 0 <= lo /\ lo <= hi /\ hi <= Len(s)

\* contains(s, substr): "true" or "false", or "panic" when a slice expression
\* it evaluates is out of range.  The operands of && and || are evaluated
\* from left to right and only as far as needed.
RECURSIVE contains(_, _)
contains_EndsOnly(s, substr) ==
    IF ~(Len(s) >= Len(substr)) THEN "false"
    ELSE IF s = substr THEN "true"
    ELSE IF ~(Len(s) > Len(substr)) THEN "false"
    ELSE IF ~SliceInRange(s, 0, Len(substr)) THEN "panic"
    ELSE IF Slice(s, 0, Len(substr)) = substr THEN "true"
    ELSE IF ~SliceInRange(s, Len(s) - Len(substr), Len(s)) THEN "panic"
    ELSE IF Slice(s, Len(s) - Len(substr), Len(s)) = substr THEN "true"
    ELSE "false"

contains(s, substr) ==
    IF ~(Len(s) >= Len(substr)) THEN "false"
    ELSE IF s = substr THEN "true"
    ELSE IF ~(Len(s) > Len(substr)) THEN "false"
    ELSE IF ~SliceInRange(s, 0, Len(substr)) THEN "panic"
    ELSE IF Slice(s, 0, Len(substr)) = substr THEN "true"
    ELSE IF ~SliceInRange(s, Len(s) - Len(substr), Len(s)) THEN "panic"
    ELSE IF Slice(s, Len(s) - Len(substr), Len(s)) = substr THEN "true"
    ELSE IF ~SliceInRange(s, 1, Len(s) - 1) THEN "panic"
    ELSE contains(Slice(s, 1, Len(s) - 1), substr)

\* isR2Endpoint(url).
R2Host == "r2.cloudflarestorage.com"

isR2Endpoint(url) == contains(url, R2Host)

\* extractRegionFromURL(url): the region, or "panic" when contains panics.
CentralRegion == "eu-central-1"

DefaultRegion == "us-east-1"

extractRegionFromURL(url) ==
    LET c == contains(url, CentralRegion)
    IN  IF c = "panic" THEN "panic"
        ELSE IF c = "true" THEN CentralRegion ELSE DefaultRegion

\* The client initializeBenchmark (and main of the validity check) creates for
\* a URL: the R2 client, or the S3 client of the extracted region.
ClientFor(url) ==
    LET r2 == isR2Endpoint(url)
    IN  IF r2 = "panic" THEN [kind |-> "panic", region |-> ""]
        ELSE IF r2 = "true" THEN [kind |-> "r2", region |-> ""]
        ELSE IF extractRegionFromURL(url) = "panic"
             THEN [kind |-> "panic", region |-> ""]
             ELSE [kind |-> "s3", region |-> extractRegionFromURL(url)]

\* The strings of at most n characters over an alphabet.
RECURSIVE Strings(_, _)
Strings(alphabet, n) ==
    IF n = 0 THEN {""}
    ELSE LET shorter == Strings(alphabet, n - 1)
         IN  shorter \cup {s \o c : s \in shorter, c \in alphabet}

\* A ramp step size so negative that the level wraps around within three
\* steps (the 64-bit build does the same with -2^62).
BigNegativeStep == -(2 ^ (IntBits - 2))

\* A ramp step size so large that the level passes MaxInt within a step.
BigPositiveStep == 2 ^ (IntBits - 2)

\* Flag values of the runs explored by Spec: a range smaller than the object,
\* as large as the object, and larger than the object.  The runs that issue
\* requests have a steady-state phase of no duration, so that requests come
\* from the pools of one or two workers only.
Configs ==
    [initial : {1, 2}, max : {2}, step : {1},
     objectSize : {3}, rangeSize : {2}, profile : {"linear"},
     warmupMinutes : {1}, rampStepMinutes : {1}, steadyStateHours : {0}]
    \cup [initial : {1, 2}, max : {2}, step : {1},
          objectSize : {3}, rangeSize : {3, 4}, profile : {"linear"},
          warmupMinutes : {1}, rampStepMinutes : {1}, steadyStateHours : {1}]

\* Flag values of the runs explored by SpecRamp: ramp step sizes that are
\* positive, negative, or take the level past MaxInt.
RampConfigs ==
    [initial : {1}, max : {2}, step : {BigNegativeStep, 1, MaxInt},
     objectSize : {3}, rangeSize : {2}, profile : {"linear"},
     warmupMinutes : {1}, rampStepMinutes : {1}, steadyStateHours : {0}]
    \cup [initial : {MaxInt - 1}, max : {MaxInt}, step : {BigPositiveStep},
          objectSize : {3}, rangeSize : {3}, profile : {"linear"},
          warmupMinutes : {1}, rampStepMinutes : {1}, steadyStateHours : {1}]

\* Flag values of the runs explored under fair scheduling: ramp step sizes
\* that are positive, zero, or take the level past MaxInt (the last with a
\* range as large as the object, so that no request is issued).
FairConfigs ==
    [initial : {1}, max : {2}, step : {0, 1},
     objectSize : {3}, rangeSize : {2}, profile : {"linear"},
     warmupMinutes : {1}, rampStepMinutes : {1}, steadyStateHours : {0}]
    \cup [initial : {MaxInt - 1}, max : {MaxInt}, step : {BigPositiveStep},
          objectSize : {3}, rangeSize : {3}, profile : {"linear"},
          warmupMinutes : {1}, rampStepMinutes : {1}, steadyStateHours : {1}]

\* Flag values of the runs explored by SpecPlateau: the plateau scenario
\* (warmup at 8, +8 per step, up to 40), a backend whose throughput is flat
\* and one whose throughput grows with every level.
PlateauConfig ==
    [initial |-> 8, max |-> 40, step |-> 8,
     objectSize |-> 3, rangeSize |-> 3, profile |-> "plateau",
     warmupMinutes |-> 1, rampStepMinutes |-> 1, steadyStateHours |-> 1]

PlateauConfigs ==
    {PlateauConfig}
    \cup [initial : {1}, max : {4}, step : {1},
          objectSize : {3}, rangeSize : {3}, profile : {"flat"},
          warmupMinutes : {1}, rampStepMinutes : {1}, steadyStateHours : {1}]
    \cup [initial : {1}, max : {2}, step : {1},
          objectSize : {3}, rangeSize : {2}, profile : {"linear"},
          warmupMinutes : {1}, rampStepMinutes : {1}, steadyStateHours : {0}]

\* Flag values of the runs explored by SpecDurations: phase durations that
\* are positive, zero or negative.
DurationConfigs ==
    [initial : {1}, max : {1}, step : {1},
     objectSize : {3}, rangeSize : {2}, profile : {"linear"},
     warmupMinutes : {0, 1}, rampStepMinutes : {-1, 1},
     steadyStateHours : {0}]
    \cup [initial : {1}, max : {1}, step : {1},
          objectSize : {3}, rangeSize : {3}, profile : {"linear"},
          warmupMinutes : {0, 1}, rampStepMinutes : {-1, 1},
          steadyStateHours : {1}]

\* Flag values of the runs explored by SpecMonitor: a run whose three
\* phases each have their monitor and whose range is as large as the object
\* (no request is issued), and a run with requests whose ramp and steady
\* state take no time (their monitors return at their first loop test).
MonitorConfigs ==
    [initial : {1}, max : {1}, step : {1},
     objectSize : {3}, rangeSize : {3}, profile : {"linear"},
     warmupMinutes : {1}, rampStepMinutes : {1}, steadyStateHours : {1}]
    \cup [initial : {1}, max : {1}, step : {1},
          objectSize : {3}, rangeSize : {2}, profile : {"linear"},
          warmupMinutes : {1}, rampStepMinutes : {0}, steadyStateHours : {0}]

\* Growth threshold of the plateau rule, in percent.
GrowthThresholdPct == 5

\* Representative throughput the backend shows at a concurrency level.
TputOf(profile, level) ==
    CASE profile = "plateau" ->
            (CASE level = 8 -> 40
               [] level = 16 -> 75
               [] level = 24 -> 100
               [] level = 32 -> 103
               [] level = 40 -> 104
               [] OTHER -> 104)
      [] profile = "flat" -> 10
      [] OTHER -> IF level > 0 THEN 10 * level ELSE 0

\* growth = (T_n - T_{n-1}) / T_{n-1} < growthThreshold, over the integers.
LowGrowth(prevT, lastT) ==
    100 * (lastT - prevT) < GrowthThresholdPct * prevT

NoObs == [n |-> 0, lastT |-> 0, best |-> NoLevel, bestT |-> -1,
          low |-> FALSE, after |-> 0, nonDecreasing |-> TRUE, increasing |-> TRUE,
          end |-> "no", levels |-> {}, writeFailed |-> FALSE,
          sampleFailed |-> FALSE]

\* The history after the step at `level` has completed: n counts the
\* completed steps (saturating at 2), best is the level of the highest
\* throughput so far, low tells that some step grew by less than the
\* threshold over the step before it.
Observe(o, profile, level) ==
    LET t == TputOf(profile, level) IN
    [o EXCEPT !.n = IF o.n < 2 THEN o.n + 1 ELSE 2,
              !.lastT = t,
              !.best = IF t > o.bestT THEN level ELSE o.best,
              !.bestT = IF t > o.bestT THEN t ELSE o.bestT,
              !.low = o.low \/ (o.n >= 1 /\ LowGrowth(o.lastT, t))]

\* The history when a step starts at `level`, the step before it having run
\* at `prev`: `after` counts the steps started after growth fell below the
\* threshold (saturating at 2), `levels` is the set of levels run,
\* `nonDecreasing` and `increasing` tell whether every step so far ran at a
\* level not below, and above, that of the step before it.
StepStarted(o, level, prev) ==
    [o EXCEPT !.after = IF o.low /\ o.after < 2 THEN o.after + 1 ELSE o.after,
              !.nonDecreasing = o.nonDecreasing /\ (prev = NoLevel \/ level >= prev),
              !.increasing = o.increasing /\ (prev = NoLevel \/ level > prev),
              !.levels = o.levels \cup {level}]

\* The history after a flush: writeFailed tells that some writer.Write has
\* returned an error.
Flushed(o, ok) == [o EXCEPT !.writeFailed = @ \/ ~ok]

\* The history after GetSystemStats has returned to a monitor: sampleFailed
\* tells that it has returned an error.
Sampled(o, sample) == [o EXCEPT !.sampleFailed = @ \/ sample = "error"]

\* runRampUp is left: "done" by its loop condition, "stopped" by the stop case.
RampEnded(o, how) == [o EXCEPT !.end = how]

\* =========================================================================
\* Initial state: initializeBenchmark has returned, main has started the
\* signal goroutine and is about to call runBenchmark.
\* =========================================================================
InitWith(configs) ==
    /\ cfg \in configs
    /\ pc = "check"
    /\ phase = "none"
    /\ cur = 0
    /\ prevLevel = NoLevel
    /\ steadyConc = NoLevel
    /\ exitCode = -1
    /\ stopChan = "open"
    /\ sigChan = 0
    /\ handlerPc = "wait"
    /\ stoppedIn = "never"
    /\ pools = <<>>
    /\ inflight = {}
    /\ issued = 0
    /\ results = <<>>
    /\ resultsClosed = FALSE
    /\ colPc = "off"
    /\ colCur = NoResult
    /\ pwBuf = <<>>
    /\ pwFile = <<>>
    /\ pwLate = <<>>
    /\ pwClosed = FALSE
    /\ pwFileClosed = FALSE
    /\ pwCloseErr = ""
    /\ promRequests = 0
    /\ promErrors = NoErrors
    /\ monitors = EmptyBag
    /\ gauges = NoGauges
    /\ binary = "microbenchmark"
    /\ backend = DefaultBackend
    /\ objectCheck = "none"
    /\ uploads = 0
    /\ obs = NoObs

Init == InitWith(Configs)

InitRamp == InitWith(RampConfigs)

InitFair == InitWith(FairConfigs)

InitPlateau == InitWith(PlateauConfigs)

InitDurations == InitWith(DurationConfigs)

InitMonitor == InitWith(MonitorConfigs)

\* The process is running: neither returned from main, nor log.Fatalf, nor a
\* panic.
Running == pc \notin {"exited", "fatal", "panic"}

\* =========================================================================
\* Signals (main, the goroutine started for graceful shutdown)
\* =========================================================================

\* The runtime delivers SIGINT/SIGTERM: a non-blocking send into sigChan,
\* which holds one signal.
SignalDelivered ==
    /\ Running
    /\ sigChan' = 1
    /\ UNCHANGED <<cfg, monVars, chkVars, ctlVars, stopChan, handlerPc, stoppedIn, workVars,
                   chanVars, colVars, pwVars, promVars, obs>>

\* SignalHandler, were the goroutine to wait for the next signal after it
\* has closed the channel.
SignalHandler_Loop ==
    /\ Running
    /\ handlerPc = "wait"
    /\ sigChan = 1
    /\ sigChan' = 0
    /\ stopChan' = "closed"
    /\ handlerPc' = "wait"
    /\ stoppedIn' = phase
    /\ UNCHANGED <<cfg, monVars, chkVars, ctlVars, workVars, chanVars, colVars, pwVars,
                   promVars, obs>>

\* <-sigChan; close(runner.stopChan)
SignalHandler ==
    /\ Running
    /\ handlerPc = "wait"
    /\ sigChan = 1
    /\ sigChan' = 0
    /\ stopChan' = "closed"
    /\ handlerPc' = "done"
    /\ stoppedIn' = phase
    /\ UNCHANGED <<cfg, monVars, chkVars, ctlVars, workVars, chanVars, colVars, pwVars,
                   promVars, obs>>

Stopped == stopChan = "closed"

\* =========================================================================
\* Worker pools
\* =========================================================================

\* endTime := startTime.Add(duration);
\* for i := 0; i < concurrency; i++ { br.wg.Add(1); go br.worker(...) }
\* With a duration that is not positive endTime is not after startTime, and
\* time.Now().Before(endTime) is false from the start.
NewPool(name, concurrency, duration) ==
    [phase |-> name, conc |-> concurrency,
     ready |-> IF concurrency > 0 THEN concurrency ELSE 0,
     expired |-> duration <= 0]

InFlightOf(i) == {r \in inflight : r.pool = i}

\* The WaitGroup counter: workers that have not yet run wg.Done.
RECURSIVE SumReady(_)
SumReady(ps) ==
    IF ps = <<>> THEN 0 ELSE Head(ps).ready + SumReady(Tail(ps))

\* WaitGroupCount, were the workers inside a request not counted.
WaitGroupCount_LoopHeadOnly == SumReady(pools)

WaitGroupCount == SumReady(pools) + Cardinality(inflight)

\* The monitors of a bag that are tracked: at most MaxMonitorCopies in the
\* same state.
Tracked(ms) ==
    [m \in DOMAIN ms |-> IF ms[m] > MaxMonitorCopies THEN MaxMonitorCopies ELSE ms[m]]

\* go br.monitorPhase(concurrency, startTime, endTime): the monitor of the
\* pool that is started next; the goroutine has not run yet.  With a duration
\* that is not positive endTime is not after startTime.  `at` is where the
\* goroutine stands: "start", "select", "stats" (UpdateConcurrency done,
\* inside GetSystemStats), "cpu" (before UpdateCPUStats) or "net" (before
\* UpdateNetworkStats); `sample` is what GetSystemStats returned to it.
WithMonitor(ms, concurrency, duration) ==
    Tracked(ms (+) SetToBag({[conc |-> concurrency, pool |-> Len(pools) + 1,
                             expired |-> duration <= 0, at |-> "start",
                             sample |-> "none"]}))

\* The monitors once the pools have been waited for: a monitor outlives the
\* workers it was started with.
Orphaned(ms) == Tracked(BagOfAll(LAMBDA m : [m EXCEPT !.pool = 0], ms))

\* time.Now() passes the endTime of pool i, which is that of its monitor.
DeadlinePasses(i) ==
    /\ Running
    /\ i \in DOMAIN pools
    /\ ~pools[i].expired
    /\ pools' = [pools EXCEPT ![i].expired = TRUE]
    /\ monitors' = Tracked(BagOfAll(LAMBDA m : IF m.pool = i
                                                THEN [m EXCEPT !.expired = TRUE]
                                                ELSE m,
                                     monitors))
    /\ UNCHANGED <<cfg, gauges, chkVars, ctlVars, sigVars, inflight, issued, chanVars,
                   colVars, pwVars, promVars, obs>>

\* The timer of the select (time.After(duration)) of the pool started last
\* has fired.
TimerFired == pools # <<>> /\ pools[Len(pools)].expired

\* =========================================================================
\* Workers (BenchmarkRunner.worker)
\* =========================================================================

\* MaxStart, were a range to start anywhere in the object.
MaxStart_WholeObject == cfg.objectSize

\* maxStart := br.config.ObjectSize - br.config.RangeSize
MaxStart == cfg.objectSize - cfg.rangeSize

\* rand.Int63n(n): the values it can return, for n > 0.
Int63n(n) == 0 .. (n - 1)

\* br.config.ObjectKey: the one object key of a run (the flag's default).
ObjectKey == "test-object-1gb"

\* rangeLen := RangeSize, cut to the end of the object.
RangeLenAt(rangeStart) ==
    IF rangeStart + cfg.rangeSize > cfg.objectSize
    THEN cfg.objectSize - rangeStart
    ELSE cfg.rangeSize

\* Thread ids of the workers of pool i that are not inside a request: the
\* spawn loop hands worker number t the id t, for t in 0 .. concurrency - 1.
FreeThreads(i) ==
    {t \in 0 .. (pools[i].conc - 1) : \A r \in InFlightOf(i) : r.thread # t}

\* The workers that may issue the next request of pool i: any worker at the
\* loop head.
ThreadChoices(i) == FreeThreads(i)

\* ConnIDOf, were the connection of a worker that of its neighbour.
ConnIDOf_Neighbour(threadID, concurrency) == (threadID + 1) % concurrency

\* ConnID: threadID % concurrency
ConnIDOf(threadID, concurrency) == threadID % concurrency

\* The loop admits another iteration: time.Now().Before(endTime), the stop
\* channel is still open, and the range fits into the object.
\* Admits, were the stop channel not looked at.
Admits_NoStopCheck(p) == ~p.expired /\ MaxStart > 0

Admits(p) == ~p.expired /\ ~Stopped /\ MaxStart > 0

\* One worker of pool i passes the loop head and calls GetObjectRange with
\* rangeStart = rand.Int63n(maxStart).
WorkerIssue(i, rangeStart) ==
    /\ Running
    /\ i \in DOMAIN pools
    /\ pools[i].ready > 0
    /\ Admits(pools[i])
    /\ issued < MaxRequests
    /\ rangeStart \in Int63n(MaxStart)
    /\ issued' = issued + 1
    /\ \E t \in ThreadChoices(i) :
          inflight' = inflight \cup
              {[id |-> issued + 1, pool |-> i, conc |-> pools[i].conc,
                thread |-> t, objectKey |-> ObjectKey,
                rangeStart |-> rangeStart, rangeLen |-> RangeLenAt(rangeStart)]}
    /\ pools' = [pools EXCEPT ![i].ready = @ - 1]
    /\ UNCHANGED <<cfg, monVars, chkVars, ctlVars, sigVars, chanVars, colVars, pwVars,
                   promVars, obs>>

\* The workers of pool i standing at the loop head find that they have to
\* return: the deadline has passed, the stop channel is closed, or
\* maxStart <= 0.  The three conditions are the same for every worker of the
\* pool and none of them ever reverts, so the workers at the loop head return
\* together; a worker still inside a request returns after its request.
WorkerExit(i) ==
    /\ Running
    /\ i \in DOMAIN pools
    /\ pools[i].ready > 0
    /\ ~Admits(pools[i])
    /\ pools' = [pools EXCEPT ![i].ready = 0]
    /\ UNCHANGED <<cfg, monVars, chkVars, ctlVars, sigVars, inflight, issued, chanVars,
                   colVars, pwVars, promVars, obs>>

\* BuildResult, were a failed request counted as retried.
BuildResult_Retried(r, ok) ==
    [id |-> r.id, threadID |-> r.thread, connID |-> ConnIDOf(r.thread, r.conc),
     concurrency |-> r.conc, objectKey |-> r.objectKey,
     rangeStart |-> r.rangeStart, rangeLen |-> r.rangeLen,
     bytes |-> IF ok THEN r.rangeLen ELSE 0,
     httpStatus |-> IF ok THEN StatusOK ELSE StatusError,
     errMsg |-> IF ok THEN "" ELSE "error",
     retryCount |-> IF ok THEN 0 ELSE 1]

\* The RequestResult a worker builds from what GetObjectRange returned.
BuildResult(r, ok) ==
    [id |-> r.id, threadID |-> r.thread, connID |-> ConnIDOf(r.thread, r.conc),
     concurrency |-> r.conc, objectKey |-> r.objectKey,
     rangeStart |-> r.rangeStart, rangeLen |-> r.rangeLen,
     bytes |-> IF ok THEN r.rangeLen ELSE 0,
     httpStatus |-> IF ok THEN StatusOK ELSE StatusError,
     errMsg |-> IF ok THEN "" ELSE "error",
     retryCount |-> 0]

\* Accepts, were the channel to take a result whatever it holds.
Accepts_Unbounded(ch) == Len(ch) >= 0

\* What the run counts when a result meets a full channel: the default case
\* of the send logs a warning and counts nothing.
DropCounter == 0

\* select { case br.results <- result: default: }: whether the send proceeds.
Accepts(ch) == Len(ch) < ChanCap

\* GetObjectRange returns to its worker, which builds the result, offers it
\* to the results channel and is back at the head of its loop.
RequestReturns(r, ok) ==
    /\ Running
    /\ r \in inflight
    /\ inflight' = inflight \ {r}
    /\ IF resultsClosed
       THEN \* a send on a closed channel panics
            /\ pc' = "panic"
            /\ exitCode' = 2
            /\ UNCHANGED <<pools, results>>
       ELSE /\ results' = IF Accepts(results)
                          THEN Append(results, BuildResult(r, ok))
                          ELSE results
            /\ pools' = [pools EXCEPT ![r.pool].ready = @ + 1]
            /\ UNCHANGED <<pc, exitCode>>
    /\ UNCHANGED <<cfg, monVars, chkVars, phase, cur, prevLevel, steadyConc, sigVars, issued,
                   resultsClosed, colVars, pwVars, promVars, obs>>

\* =========================================================================
\* ParquetWriter and PrometheusExporter
\* =========================================================================

\* flush: hand the rows of the batch to writer.Write one by one and empty
\* the batch.  failAt = k in 1 .. Len(buf) is the run in which the k-th
\* writer.Write returns an error: the rows before it have been written and
\* the batch is left as it was; any other failAt is the run without error.
\* The triple is <<batch, rows handed to writer.Write, flush returned nil>>.
Flush(buf, failAt) ==
    IF failAt \in 1 .. Len(buf)
    THEN <<buf, SubSeq(buf, 1, failAt - 1), FALSE>>
    ELSE <<(<<>>), buf, TRUE>>

\* Outcomes of writer.WriteStop and of file.Close: no error, or an error.
CloseOutcomes == BOOLEAN

\* CloseWriter, were WriteStop and the file's Close to run whatever flush
\* returned.
CloseWriter_StopAnyway(buf, failAt, stopOk, fileOk) ==
    LET f == Flush(buf, failAt) IN
    [buf |-> f[1], rows |-> f[2], stopped |-> stopOk, fileClosed |-> stopOk /\ fileOk,
     err |-> IF ~f[3] THEN "flush"
             ELSE IF ~stopOk THEN "stop"
             ELSE IF ~fileOk THEN "file" ELSE "nil"]

\* Close: flush, then writer.WriteStop, then file.Close, returning at the
\* first error.  The record tells the batch after the call, the rows handed
\* to writer.Write, whether WriteStop and file.Close have run without
\* error, and the step whose error Close returned ("nil": none).
CloseWriter(buf, failAt, stopOk, fileOk) ==
    LET f == Flush(buf, failAt) IN
    IF ~f[3]
    THEN [buf |-> f[1], rows |-> f[2], stopped |-> FALSE, fileClosed |-> FALSE,
          err |-> "flush"]
    ELSE IF ~stopOk
    THEN [buf |-> f[1], rows |-> f[2], stopped |-> FALSE, fileClosed |-> FALSE,
          err |-> "stop"]
    ELSE IF ~fileOk
    THEN [buf |-> f[1], rows |-> f[2], stopped |-> TRUE, fileClosed |-> FALSE,
          err |-> "file"]
    ELSE [buf |-> f[1], rows |-> f[2], stopped |-> TRUE, fileClosed |-> TRUE,
          err |-> "nil"]

\* WriteResultTo, were the result put in front of the batch.
WriteResultTo_InFront(buf, result, failAt) ==
    LET b == <<result>> \o buf IN
    IF Len(b) >= BatchSize THEN Flush(b, failAt) ELSE <<b, (<<>>), TRUE>>

\* WriteResult: append to the batch, flush when it has reached batchSize.
WriteResultTo(buf, result, failAt) ==
    LET b == Append(buf, result) IN
    IF Len(b) >= BatchSize THEN Flush(b, failAt) ELSE <<b, (<<>>), TRUE>>

\* ErrorType, were the status looked at before the error message.
ErrorType_StatusFirst(status, errMsg) ==
    IF status >= 400 THEN "http_error"
    ELSE IF errMsg # "" THEN "request_error" ELSE "none"

\* RecordRequest's error_type label: request_error, else http_error, else no
\* error is counted.
ErrorType(status, errMsg) ==
    IF errMsg # "" THEN "request_error"
    ELSE IF status >= 400 THEN "http_error" ELSE "none"

\* RecordRequest's errorCounter after the call.
RecordErrors(errors, status, errMsg) ==
    IF ErrorType(status, errMsg) = "none"
    THEN errors
    ELSE [errors EXCEPT ![ErrorType(status, errMsg)] = @ + 1]

\* =========================================================================
\* The result collector (BenchmarkRunner.collectResults)
\* =========================================================================

\* for result := range br.results: one receive.
CollectReceive ==
    /\ Running
    /\ colPc = "recv"
    /\ results # <<>>
    /\ colCur' = Head(results)
    /\ results' = Tail(results)
    /\ colPc' = "write"
    /\ UNCHANGED <<cfg, monVars, chkVars, ctlVars, sigVars, workVars, resultsClosed, pwVars,
                   promVars, obs>>

\* The loop body, first call: parquetWriter.WriteResult(result) under the
\* writer's mutex; its error is only logged.
CollectWrite(failAt) ==
    /\ Running
    /\ colPc = "write"
    /\ LET w == WriteResultTo(pwBuf, colCur, failAt) IN
         /\ pwBuf' = w[1]
         /\ pwFile' = IF pwClosed THEN pwFile ELSE pwFile \o w[2]
         /\ pwLate' = IF pwClosed THEN pwLate \o w[2] ELSE pwLate
         /\ obs' = Flushed(obs, w[3])
    /\ colPc' = "record"
    /\ UNCHANGED <<cfg, monVars, chkVars, ctlVars, sigVars, workVars, chanVars, colCur,
                   pwEndVars, promVars>>

\* The loop body, second call: promExporter.RecordRequest(...) under the
\* exporter's mutex, and back to the receive.
CollectRecord ==
    /\ Running
    /\ colPc = "record"
    /\ promRequests' = promRequests + 1
    /\ promErrors' = RecordErrors(promErrors, colCur.httpStatus, colCur.errMsg)
    /\ colCur' = NoResult
    /\ colPc' = "recv"
    /\ UNCHANGED <<cfg, monVars, chkVars, ctlVars, sigVars, workVars, chanVars, pwVars,
                   obs>>

\* The range loop ends: the channel is closed and drained.
CollectExit ==
    /\ Running
    /\ colPc = "recv"
    /\ results = <<>>
    /\ resultsClosed
    /\ colPc' = "done"
    /\ UNCHANGED <<cfg, monVars, chkVars, ctlVars, sigVars, workVars, chanVars, colCur, pwVars,
                   promVars, obs>>

\* =========================================================================
\* The phase monitors (BenchmarkRunner.monitorPhase)
\* =========================================================================

\* Outcomes of ec2Monitor.GetSystemStats at a tick: statistics (with their
\* network part), or an error.  NewEC2Monitor returns no error, so the
\* monitor is never nil.
Samples == {"ok", "error"}

\* The bag of monitors once monitor m has become n.
Moved(ms, m, n) == Tracked((ms (-) SetToBag({m})) (+) SetToBag({n}))

\* The bag of monitors once monitor m has returned.
Returned(ms, m) == ms (-) SetToBag({m})

\* The head of the loop: the monitor returns if time.Now() has passed
\* endTime and waits in its select otherwise.
AtLoopHead(ms, m) ==
    IF m.expired
    THEN Returned(ms, m)
    ELSE Moved(ms, m, [m EXCEPT !.at = "select", !.sample = "none"])

\* SampleTaken, were the gauges set from a sample whatever GetSystemStats
\* returned.
SampleTaken_FailedSample(ms, m, sample) ==
    Moved(ms, m, [m EXCEPT !.at = "cpu", !.sample = sample])

\* if stats, err := br.ec2Monitor.GetSystemStats(); err == nil { ... }: the
\* monitor goes on to the CPU gauge with the statistics, or to the head of
\* its loop after an error.
SampleTaken(ms, m, sample) ==
    IF sample = "ok"
    THEN Moved(ms, m, [m EXCEPT !.at = "cpu", !.sample = sample])
    ELSE AtLoopHead(ms, m)

\* PrometheusExporter.UpdateThroughput(instanceType, concurrency, mbps): sets
\* the throughput gauge.  Neither program calls it: no action of Next or
\* NextValidity uses it, and SpecExporter calls it as it calls RecordRequest.
UpdateThroughput(g, mbps) == [g EXCEPT !.throughput = mbps]

\* time.Now() passes the endTime of a monitor whose workers have been waited
\* for.
MonitorDeadline(m) ==
    /\ Running
    /\ BagIn(m, monitors)
    /\ m.pool = 0
    /\ ~m.expired
    /\ monitors' = Moved(monitors, m, [m EXCEPT !.expired = TRUE])
    /\ UNCHANGED <<cfg, gauges, chkVars, ctlVars, sigVars, workVars, chanVars,
                   colVars, pwVars, promVars, obs>>

\* The goroutine of a monitor starts to run: time.NewTicker and the first
\* test of the loop condition.
MonitorStart(m) ==
    /\ Running
    /\ BagIn(m, monitors)
    /\ m.at = "start"
    /\ monitors' = AtLoopHead(monitors, m)
    /\ UNCHANGED <<cfg, gauges, chkVars, ctlVars, sigVars, workVars, chanVars,
                   colVars, pwVars, promVars, obs>>

\* The select of a monitor, ticker case: UpdateConcurrency, and the call of
\* GetSystemStats.
MonitorTick(m) ==
    /\ Running
    /\ BagIn(m, monitors)
    /\ m.at = "select"
    /\ gauges' = [gauges EXCEPT !.conc = m.conc]
    /\ monitors' = Moved(monitors, m, [m EXCEPT !.at = "stats"])
    /\ UNCHANGED <<cfg, chkVars, ctlVars, sigVars, workVars, chanVars,
                   colVars, pwVars, promVars, obs>>

\* GetSystemStats returns to a monitor.
MonitorSample(m, sample) ==
    /\ Running
    /\ BagIn(m, monitors)
    /\ m.at = "stats"
    /\ sample \in Samples
    /\ monitors' = SampleTaken(monitors, m, sample)
    /\ obs' = Sampled(obs, sample)
    /\ UNCHANGED <<cfg, gauges, chkVars, ctlVars, sigVars, workVars, chanVars,
                   colVars, pwVars, promVars>>

\* UpdateCPUStats with the statistics of the tick.
MonitorCPU(m) ==
    /\ Running
    /\ BagIn(m, monitors)
    /\ m.at = "cpu"
    /\ gauges' = [gauges EXCEPT !.cpu = m.sample]
    /\ monitors' = Moved(monitors, m, [m EXCEPT !.at = "net"])
    /\ UNCHANGED <<cfg, chkVars, ctlVars, sigVars, workVars, chanVars,
                   colVars, pwVars, promVars, obs>>

\* UpdateNetworkStats with the statistics of the tick, and the head of the
\* loop.
MonitorNet(m) ==
    /\ Running
    /\ BagIn(m, monitors)
    /\ m.at = "net"
    /\ gauges' = [gauges EXCEPT !.net = m.sample]
    /\ monitors' = AtLoopHead(monitors, m)
    /\ UNCHANGED <<cfg, chkVars, ctlVars, sigVars, workVars, chanVars,
                   colVars, pwVars, promVars, obs>>

\* The select of a monitor, stop case: return.
MonitorStopped(m) ==
    /\ Running
    /\ BagIn(m, monitors)
    /\ m.at = "select"
    /\ Stopped
    /\ monitors' = Returned(monitors, m)
    /\ UNCHANGED <<cfg, gauges, chkVars, ctlVars, sigVars, workVars, chanVars,
                   colVars, pwVars, promVars, obs>>

\* =========================================================================
\* The controller (main, runBenchmark, runPhase, runRampUp, cleanup)
\* =========================================================================

\* Outcomes of client.ObjectExists.
ObjectChecks == {"exists", "missing", "error"}

\* runBenchmark up to the warmup phase: log.Fatalf unless the test object
\* exists, else start the result collector.
CheckObject(outcome) ==
    /\ pc = "check"
    /\ outcome \in ObjectChecks
    /\ objectCheck' = outcome
    /\ IF outcome = "exists"
       THEN /\ pc' = "warmup"
            /\ colPc' = "recv"
            /\ UNCHANGED <<phase, exitCode>>
       ELSE /\ pc' = "fatal"
            /\ phase' = "terminated"
            /\ exitCode' = 1
            /\ UNCHANGED colPc
    /\ UNCHANGED <<cfg, monVars, binary, backend, uploads, cur, prevLevel, steadyConc,
                   sigVars, workVars, chanVars, colCur, pwVars, promVars, obs>>

\* runPhase(ctx, *initialConcurrency, ..., "warmup") up to its select.
StartWarmup ==
    /\ pc = "warmup"
    /\ phase' = "warmup"
    /\ pools' = Append(pools, NewPool("warmup", cfg.initial, cfg.warmupMinutes))
    /\ monitors' = WithMonitor(monitors, cfg.initial, cfg.warmupMinutes)
    /\ pc' = "warmup_wait"
    /\ UNCHANGED <<cfg, gauges, chkVars, cur, prevLevel, steadyConc, exitCode, sigVars,
                   inflight, issued, chanVars, colVars, pwVars, promVars, obs>>

\* runPhase's select: the timer has fired or the stop channel is closed.
PhaseSelect(from, to) ==
    /\ pc = from
    /\ TimerFired \/ Stopped
    /\ pc' = to
    /\ UNCHANGED <<cfg, monVars, chkVars, phase, cur, prevLevel, steadyConc, exitCode, sigVars,
                   workVars, chanVars, colVars, pwVars, promVars, obs>>

WarmupSelect == PhaseSelect("warmup_wait", "warmup_join")

\* runPhase's br.wg.Wait() returns; runBenchmark enters runRampUp, whose
\* currentConcurrency starts at startConcurrency.
WarmupJoin ==
    /\ pc = "warmup_join"
    /\ WaitGroupCount = 0
    /\ pools' = <<>>
    /\ monitors' = Orphaned(monitors)
    /\ phase' = "ramp"
    /\ cur' = cfg.initial
    /\ pc' = "ramp"
    /\ UNCHANGED <<cfg, gauges, chkVars, prevLevel, steadyConc, exitCode, sigVars, inflight,
                   issued, chanVars, colVars, pwVars, promVars, obs>>

\* The condition of runRampUp's loop.
RampContinues(level, maxConcurrency) == level <= maxConcurrency

\* One pass of the loop head of runRampUp: start the workers of the step.
RampStep ==
    /\ pc = "ramp"
    /\ RampContinues(cur, cfg.max)
    /\ pools' = Append(pools, NewPool("ramp", cur, cfg.rampStepMinutes))
    /\ monitors' = WithMonitor(monitors, cur, cfg.rampStepMinutes)
    /\ obs' = StepStarted(obs, cur, prevLevel)
    /\ pc' = "ramp_wait"
    /\ UNCHANGED <<cfg, gauges, chkVars, phase, cur, prevLevel, steadyConc, exitCode, sigVars,
                   inflight, issued, chanVars, colVars, pwVars, promVars>>

\* The loop of runRampUp ends: currentConcurrency > maxConcurrency.
RampDone ==
    /\ pc = "ramp"
    /\ ~RampContinues(cur, cfg.max)
    /\ pc' = "steady"
    /\ obs' = RampEnded(obs, "done")
    /\ UNCHANGED <<cfg, monVars, chkVars, phase, cur, prevLevel, steadyConc, exitCode, sigVars,
                   workVars, chanVars, colVars, pwVars, promVars>>

\* runRampUp's select, timer case: the step completed.
RampTimer ==
    /\ pc = "ramp_wait"
    /\ TimerFired
    /\ pc' = "ramp_join"
    /\ UNCHANGED <<cfg, monVars, chkVars, phase, cur, prevLevel, steadyConc, exitCode, sigVars,
                   workVars, chanVars, colVars, pwVars, promVars, obs>>

\* RampStopped, were the stop case to start the benchmark over.
RampStopped_Restart ==
    /\ pc = "ramp_wait"
    /\ Stopped
    /\ pc' = "warmup"
    /\ obs' = RampEnded(obs, "stopped")
    /\ UNCHANGED <<cfg, monVars, chkVars, phase, cur, prevLevel, steadyConc, exitCode, sigVars,
                   workVars, chanVars, colVars, pwVars, promVars>>

\* runRampUp's select, stop case: return, without waiting for the workers.
RampStopped ==
    /\ pc = "ramp_wait"
    /\ Stopped
    /\ pc' = "steady"
    /\ obs' = RampEnded(obs, "stopped")
    /\ UNCHANGED <<cfg, monVars, chkVars, phase, cur, prevLevel, steadyConc, exitCode, sigVars,
                   workVars, chanVars, colVars, pwVars, promVars>>

\* currentConcurrency += br.config.RampStepSize
NextLevel(level, stepSize) == WrapInt(level + stepSize)

\* br.wg.Wait() of the step returns and the level is raised for the next one.
RampJoin ==
    /\ pc = "ramp_join"
    /\ WaitGroupCount = 0
    /\ pools' = <<>>
    /\ monitors' = Orphaned(monitors)
    /\ prevLevel' = cur
    /\ cur' = NextLevel(cur, cfg.step)
    /\ obs' = Observe(obs, cfg.profile, cur)
    /\ pc' = "ramp"
    /\ UNCHANGED <<cfg, gauges, chkVars, phase, steadyConc, exitCode, sigVars, inflight,
                   issued, chanVars, colVars, pwVars, promVars>>

\* findOptimalConcurrency: "For now, return a reasonable default".
findOptimalConcurrency == DefaultOptimalConcurrency

\* runBenchmark, phase 3: runPhase(ctx, optimalConcurrency, ...) up to its
\* select.
StartSteady ==
    /\ pc = "steady"
    /\ steadyConc' = findOptimalConcurrency
    /\ phase' = "steady-state"
    /\ pools' = Append(pools, NewPool("steady-state", findOptimalConcurrency,
                                  cfg.steadyStateHours))
    /\ monitors' = WithMonitor(monitors, findOptimalConcurrency,
                               cfg.steadyStateHours)
    /\ pc' = "steady_wait"
    /\ UNCHANGED <<cfg, gauges, chkVars, cur, prevLevel, exitCode, sigVars, inflight, issued,
                   chanVars, colVars, pwVars, promVars, obs>>

SteadySelect == PhaseSelect("steady_wait", "steady_join")

\* runPhase's br.wg.Wait() returns, runBenchmark returns to main.
SteadyJoin ==
    /\ pc = "steady_join"
    /\ WaitGroupCount = 0
    /\ pools' = <<>>
    /\ monitors' = Orphaned(monitors)
    /\ phase' = "terminated"
    /\ pc' = "cleanup"
    /\ UNCHANGED <<cfg, gauges, chkVars, cur, prevLevel, steadyConc, exitCode, sigVars,
                   inflight, issued, chanVars, colVars, pwVars, promVars, obs>>

\* cleanup: close(br.results)
CleanupCloseResults ==
    /\ pc = "cleanup"
    /\ resultsClosed' = TRUE
    /\ pc' = "cleanup_wait"
    /\ UNCHANGED <<cfg, monVars, chkVars, phase, cur, prevLevel, steadyConc, exitCode, sigVars,
                   workVars, results, colVars, pwVars, promVars, obs>>

\* cleanup: br.wg.Wait(); br.parquetWriter.Close(): flush, then WriteStop
\* and the file's Close unless the flush returned an error.  cleanup drops
\* the error Close returns.
CleanupCloseWriter(failAt) ==
    /\ pc = "cleanup_wait"
    /\ WaitGroupCount = 0
    /\ \E stopOk, fileOk \in CloseOutcomes :
         LET c == CloseWriter(pwBuf, failAt, stopOk, fileOk) IN
         /\ pwBuf' = c.buf
         /\ pwFile' = pwFile \o c.rows
         /\ pwClosed' = c.stopped
         /\ pwFileClosed' = c.fileClosed
         /\ pwCloseErr' = c.err
         /\ obs' = Flushed(obs, c.err # "flush")
    /\ pc' = "return"
    /\ UNCHANGED <<cfg, monVars, chkVars, phase, cur, prevLevel, steadyConc, exitCode, sigVars,
                   workVars, chanVars, colVars, pwLate, promVars>>

\* main returns: the process ends and takes every goroutine with it.
MainReturns ==
    /\ pc = "return"
    /\ pc' = "exited"
    /\ exitCode' = 0
    /\ UNCHANGED <<cfg, monVars, chkVars, phase, cur, prevLevel, steadyConc, sigVars, workVars,
                   chanVars, colVars, pwVars, promVars, obs>>

\* =========================================================================
\* The validity check (validity_check.go: main, runCapacityDiscovery, worker,
\* collectResults).  It has no signal goroutine, no stop channel, no
\* monitor goroutine and no exporter.
\* =========================================================================

\* for c := *concurrency; c <= *maxConcurrency; c += 8
CapacityStep == 8
\* testDuration := 5 * time.Minute
TestDurationMinutes == 5

\* Flag values of the runs explored by SpecValidity: levels below the
\* maximum, an initial level above the maximum, a range as large as the
\* object, and a maximum within CapacityStep of MaxInt.
ValidityConfigs ==
    [initial : {1, 2}, max : {2}, objectSize : {3}, rangeSize : {2}]
    \cup [initial : {1, 10}, max : {9}, objectSize : {3}, rangeSize : {3}]
    \cup [initial : {MaxInt - 1}, max : {MaxInt}, objectSize : {3},
          rangeSize : {3}]

\* main has parsed the flags, created the client and the ParquetWriter, and
\* is about to call client.ObjectExists.
InitValidityWith(configs) ==
    /\ cfg \in configs
    /\ pc = "vc_check"
    /\ phase = "none"
    /\ cur = 0
    /\ prevLevel = NoLevel
    /\ steadyConc = NoLevel
    /\ exitCode = -1
    /\ stopChan = "open"
    /\ sigChan = 0
    /\ handlerPc = "absent"
    /\ stoppedIn = "never"
    /\ pools = <<>>
    /\ inflight = {}
    /\ issued = 0
    /\ results = <<>>
    /\ resultsClosed = FALSE
    /\ colPc = "off"
    /\ colCur = NoResult
    /\ pwBuf = <<>>
    /\ pwFile = <<>>
    /\ pwLate = <<>>
    /\ pwClosed = FALSE
    /\ pwFileClosed = FALSE
    /\ pwCloseErr = ""
    /\ promRequests = 0
    /\ promErrors = NoErrors
    /\ monitors = EmptyBag
    /\ gauges = NoGauges
    /\ binary = "validity"
    /\ backend = DefaultBackend
    /\ objectCheck = "none"
    /\ uploads = 0
    /\ obs = NoObs

InitValidity == InitValidityWith(ValidityConfigs)

\* NeedsUpload, were the object created whatever the check returned.
NeedsUpload_Always(outcome) == outcome \in {"exists", "missing"}

\* if !exists { createTestObject(...) }
NeedsUpload(outcome) == outcome = "missing"

\* exists, err := client.ObjectExists(ctx, *objectKey); log.Fatalf on err.
VCCheckObject(outcome) ==
    /\ pc = "vc_check"
    /\ outcome \in ObjectChecks
    /\ objectCheck' = outcome
    /\ IF outcome = "error"
       THEN /\ pc' = "fatal"
            /\ exitCode' = 1
       ELSE /\ pc' = IF NeedsUpload(outcome) THEN "vc_upload" ELSE "vc_discovery"
            /\ UNCHANGED exitCode
    /\ UNCHANGED <<cfg, monVars, binary, backend, uploads, phase, cur, prevLevel,
                   steadyConc, sigVars, workVars, chanVars, colVars, pwVars, promVars,
                   obs>>

\* createTestObject: client.UploadObject; log.Fatalf if it returns an error.
VCUpload(ok) ==
    /\ pc = "vc_upload"
    /\ uploads' = uploads + 1
    /\ IF ok
       THEN /\ pc' = "vc_discovery"
            /\ UNCHANGED exitCode
       ELSE /\ pc' = "fatal"
            /\ exitCode' = 1
    /\ UNCHANGED <<cfg, monVars, binary, backend, objectCheck, phase, cur, prevLevel,
                   steadyConc, sigVars, workVars, chanVars, colVars, pwVars,
                   promVars, obs>>

\* runCapacityDiscovery up to its loop: make the results channel, start the
\* collector, c := *concurrency.
VCStartDiscovery ==
    /\ pc = "vc_discovery"
    /\ colPc' = "recv"
    /\ phase' = "capacity"
    /\ cur' = cfg.initial
    /\ pc' = "vc_loop"
    /\ UNCHANGED <<cfg, monVars, chkVars, prevLevel, steadyConc, exitCode, sigVars,
                   workVars, chanVars, colCur, pwVars, promVars, obs>>

\* The condition of runCapacityDiscovery's loop.
LevelContinues(c, maxConcurrency) == c <= maxConcurrency

\* c += 8
NextCapacityLevel(c) == WrapInt(c + CapacityStep)

\* One pass of the loop head: start the c workers of the level.
VCLevel ==
    /\ pc = "vc_loop"
    /\ LevelContinues(cur, cfg.max)
    /\ pools' = Append(pools, NewPool("capacity", cur, TestDurationMinutes))
    /\ obs' = StepStarted(obs, cur, prevLevel)
    /\ pc' = "vc_sleep"
    /\ UNCHANGED <<cfg, monVars, chkVars, phase, cur, prevLevel, steadyConc, exitCode,
                   sigVars, inflight, issued, chanVars, colVars, pwVars, promVars>>

\* time.Sleep(testDuration) returns.
VCSleep ==
    /\ pc = "vc_sleep"
    /\ TimerFired
    /\ pc' = "vc_wait"
    /\ UNCHANGED <<cfg, monVars, chkVars, phase, cur, prevLevel, steadyConc, exitCode,
                   sigVars, workVars, chanVars, colVars, pwVars, promVars, obs>>

\* wg.Wait() returns and the loop goes to the next level.
VCJoin ==
    /\ pc = "vc_wait"
    /\ WaitGroupCount = 0
    /\ pools' = <<>>
    /\ prevLevel' = cur
    /\ cur' = NextCapacityLevel(cur)
    /\ pc' = "vc_loop"
    /\ UNCHANGED <<cfg, monVars, chkVars, phase, steadyConc, exitCode, sigVars,
                   inflight, issued, chanVars, colVars, pwVars, promVars, obs>>

\* The loop ends: close(results), runCapacityDiscovery returns to main.
VCClose ==
    /\ pc = "vc_loop"
    /\ ~LevelContinues(cur, cfg.max)
    /\ resultsClosed' = TRUE
    /\ phase' = "terminated"
    /\ obs' = RampEnded(obs, "done")
    /\ pc' = "vc_return"
    /\ UNCHANGED <<cfg, monVars, chkVars, cur, prevLevel, steadyConc, exitCode, sigVars,
                   workVars, results, colVars, pwVars, promVars>>

\* main returns: the deferred parquetWriter.Close() runs, without waiting
\* for the collector.
VCDeferredClose(failAt) ==
    /\ pc = "vc_return"
    /\ \E stopOk, fileOk \in CloseOutcomes :
         LET c == CloseWriter(pwBuf, failAt, stopOk, fileOk) IN
         /\ pwBuf' = c.buf
         /\ pwFile' = pwFile \o c.rows
         /\ pwClosed' = c.stopped
         /\ pwFileClosed' = c.fileClosed
         /\ pwCloseErr' = c.err
         /\ obs' = Flushed(obs, c.err # "flush")
    /\ pc' = "vc_exit"
    /\ UNCHANGED <<cfg, monVars, chkVars, phase, cur, prevLevel, steadyConc, exitCode,
                   sigVars, workVars, chanVars, colVars, pwLate, promVars>>

\* The process ends and takes the collector with it.
VCMainReturns ==
    /\ pc = "vc_exit"
    /\ pc' = "exited"
    /\ exitCode' = 0
    /\ UNCHANGED <<cfg, monVars, chkVars, phase, cur, prevLevel, steadyConc, sigVars,
                   workVars, chanVars, colVars, pwVars, promVars, obs>>

\* The worker's loop admits another iteration: time.Now().Before(endTime)
\* and the range fits into the object.
StillTesting(p) == ~p.expired /\ MaxStart > 0

\* One worker of the level passes the loop head and calls GetObjectRange.
VCWorkerIssue(i, rangeStart) ==
    /\ Running
    /\ i \in DOMAIN pools
    /\ pools[i].ready > 0
    /\ StillTesting(pools[i])
    /\ issued < MaxRequests
    /\ rangeStart \in Int63n(MaxStart)
    /\ issued' = issued + 1
    /\ \E t \in ThreadChoices(i) :
          inflight' = inflight \cup
              {[id |-> issued + 1, pool |-> i, conc |-> pools[i].conc,
                thread |-> t, objectKey |-> ObjectKey,
                rangeStart |-> rangeStart, rangeLen |-> RangeLenAt(rangeStart)]}
    /\ pools' = [pools EXCEPT ![i].ready = @ - 1]
    /\ UNCHANGED <<cfg, monVars, chkVars, ctlVars, sigVars, chanVars, colVars, pwVars,
                   promVars, obs>>

\* The workers of the level standing at the loop head return (wg.Done): the
\* deadline has passed or maxStart <= 0.
VCWorkerExit(i) ==
    /\ Running
    /\ i \in DOMAIN pools
    /\ pools[i].ready > 0
    /\ ~StillTesting(pools[i])
    /\ pools' = [pools EXCEPT ![i].ready = 0]
    /\ UNCHANGED <<cfg, monVars, chkVars, ctlVars, sigVars, inflight, issued, chanVars,
                   colVars, pwVars, promVars, obs>>

\* GetObjectRange returns to its worker, which builds the result, offers it
\* to the results channel without blocking and is back at the loop head.
VCRequestReturns(r, ok) ==
    /\ Running
    /\ r \in inflight
    /\ inflight' = inflight \ {r}
    /\ IF resultsClosed
       THEN /\ pc' = "panic"
            /\ exitCode' = 2
            /\ UNCHANGED <<pools, results>>
       ELSE /\ results' = IF Accepts(results)
                          THEN Append(results, BuildResult(r, ok))
                          ELSE results
            /\ pools' = [pools EXCEPT ![r.pool].ready = @ + 1]
            /\ UNCHANGED <<pc, exitCode>>
    /\ UNCHANGED <<cfg, monVars, chkVars, phase, cur, prevLevel, steadyConc, sigVars,
                   issued, resultsClosed, colVars, pwVars, promVars, obs>>

\* collectResults' loop body: parquetWriter.WriteResult(result), whose error
\* is only logged.
VCCollectWrite(failAt) ==
    /\ Running
    /\ colPc = "write"
    /\ LET w == WriteResultTo(pwBuf, colCur, failAt) IN
         /\ pwBuf' = w[1]
         /\ pwFile' = IF pwClosed THEN pwFile ELSE pwFile \o w[2]
         /\ pwLate' = IF pwClosed THEN pwLate \o w[2] ELSE pwLate
         /\ obs' = Flushed(obs, w[3])
    /\ colCur' = NoResult
    /\ colPc' = "recv"
    /\ UNCHANGED <<cfg, monVars, chkVars, ctlVars, sigVars, workVars, chanVars, pwEndVars,
                   promVars>>

\* =========================================================================
\* The exporter under every result the channel can deliver
\* =========================================================================

\* HTTP statuses and error texts of the results handed to RecordRequest:
\* below and from 400 on, without and with an error text.
ExporterStatuses == {200, 399, 400, 500}
ExporterErrMsgs == {"", "error"}

\* The collector receives a result with the given status and error text.
HoldResult(status, errMsg) ==
    /\ Running
    /\ colPc = "recv"
    /\ promRequests < MaxWrites
    /\ colCur' = [id |-> promRequests + 1, threadID |-> 0, connID |-> 0,
                  concurrency |-> cfg.initial, objectKey |-> ObjectKey,
                  rangeStart |-> 0, rangeLen |-> cfg.rangeSize,
                  bytes |-> IF errMsg = "" THEN cfg.rangeSize ELSE 0,
                  httpStatus |-> status, errMsg |-> errMsg, retryCount |-> 0]
    /\ colPc' = "write"
    /\ UNCHANGED <<cfg, monVars, chkVars, ctlVars, sigVars, workVars, chanVars, pwVars,
                   promVars, obs>>

\* A caller of the exporter sets the throughput gauge to mbps.
SetThroughput(mbps) ==
    /\ Running
    /\ gauges' = UpdateThroughput(gauges, mbps)
    /\ UNCHANGED <<cfg, monitors, chkVars, ctlVars, sigVars, workVars, chanVars,
                   colVars, pwVars, promVars, obs>>

\* =========================================================================
\* Specifications
\* =========================================================================
\* Which writer.Write of a flush fails: none (0), or the k-th.
WriteFailures == 0 .. MaxWrites

Controller ==
    \/ \E o \in ObjectChecks : CheckObject(o)
    \/ StartWarmup
    \/ WarmupSelect
    \/ WarmupJoin
    \/ RampStep
    \/ RampDone
    \/ RampTimer
    \/ RampStopped
    \/ RampJoin
    \/ StartSteady
    \/ SteadySelect
    \/ SteadyJoin
    \/ CleanupCloseResults
    \/ \E failAt \in WriteFailures : CleanupCloseWriter(failAt)
    \/ MainReturns

WorkerLoop == \E i \in 1 .. 2 : \E s \in 0 .. 2 : WorkerIssue(i, s) \/ WorkerExit(i)

Returns == \E r \in inflight : \E ok \in BOOLEAN : RequestReturns(r, ok)

Clock == \E i \in 1 .. 2 : DeadlinePasses(i)

Collector ==
    \/ CollectReceive
    \/ \E failAt \in WriteFailures : CollectWrite(failAt)
    \/ CollectRecord
    \/ CollectExit

Next ==
    \/ SignalDelivered
    \/ SignalHandler
    \/ Controller
    \/ WorkerLoop
    \/ Returns
    \/ Clock
    \/ Collector

Spec == Init /\ [][Next]_vars

\* The ramp under the step sizes of RampConfigs.
SpecRamp == InitRamp /\ [][Next]_vars

\* The plateau scenarios.
SpecPlateau == InitPlateau /\ [][Next]_vars

\* Phase durations that are positive, zero or negative.
SpecDurations == InitDurations /\ [][Next]_vars

Monitor ==
    \E m \in BagToSet(monitors) :
        \/ MonitorDeadline(m)
        \/ MonitorStart(m)
        \/ MonitorTick(m)
        \/ \E sample \in Samples : MonitorSample(m, sample)
        \/ MonitorCPU(m)
        \/ MonitorNet(m)
        \/ MonitorStopped(m)

\* Next leaves the monitors where they were started: they write the gauges
\* and nothing else, and read the stop channel and the clock.  NextMonitor
\* schedules them.
NextMonitor == Next \/ Monitor

SpecMonitor == InitMonitor /\ [][NextMonitor]_vars

VCController ==
    \/ \E o \in ObjectChecks : VCCheckObject(o)
    \/ \E ok \in BOOLEAN : VCUpload(ok)
    \/ VCStartDiscovery
    \/ VCLevel
    \/ VCSleep
    \/ VCJoin
    \/ VCClose
    \/ \E failAt \in WriteFailures : VCDeferredClose(failAt)
    \/ VCMainReturns

VCWorkerLoop == \E s \in 0 .. 2 : VCWorkerIssue(1, s) \/ VCWorkerExit(1)

VCReturns == \E r \in inflight : \E ok \in BOOLEAN : VCRequestReturns(r, ok)

VCClock == DeadlinePasses(1)

VCCollector ==
    \/ CollectReceive
    \/ \E failAt \in WriteFailures : VCCollectWrite(failAt)
    \/ CollectExit

NextValidity ==
    \/ VCController
    \/ VCWorkerLoop
    \/ VCReturns
    \/ VCClock
    \/ VCCollector

\* The validity check.
SpecValidity == InitValidity /\ [][NextValidity]_vars

\* Flag values of the runs explored by SpecBinaries.
BinariesConfigs ==
    [initial : {1, 2}, max : {2}, step : {1},
     objectSize : {3}, rangeSize : {1, 2}, profile : {"linear"},
     warmupMinutes : {1}, rampStepMinutes : {1}, steadyStateHours : {0}]

BinariesValidityConfigs ==
    [initial : {1, 2}, max : {2}, objectSize : {3}, rangeSize : {1, 2}]

InitBinaries ==
    InitWith(BinariesConfigs) \/ InitValidityWith(BinariesValidityConfigs)

NextBinaries ==
    \/ binary = "microbenchmark" /\ Next
    \/ binary = "validity" /\ NextValidity

\* Either of the two programs.
SpecBinaries == InitBinaries /\ [][NextBinaries]_vars

\* -------------------------------------------------------------------------
\* The choice of the backend, checked on its own: the runs start in main
\* before the client is created.
\* -------------------------------------------------------------------------

\* The characters of the generated strings.
Alphabet == {"a", "b"}

\* URLs given by -url: R2 and S3 endpoints with the host name or the region at
\* the start, at the end and in between, and near misses.
EndpointUrls ==
    {"https://acct.r2.cloudflarestorage.com",
     "r2.cloudflarestorage.com/bucket/object",
     "https://acct.r2.cloudflarestorage.com/b",
     "https://acct.eu-central-1.r2.cloudflarestorage.com/bucket",
     "https://acct.r2.cloudflarestorage.co",
     "https://s3.eu-central-1.amazonaws.com",
     "eu-central-1.amazonaws.com/bucket/o",
     "s3.eu-central-1",
     "https://s3.eu-central-2.amazonaws.com",
     "https://s3.us-east-1.amazonaws.com",
     "https://s3.amazonaws.com/bucket",
     R2Host,
     CentralRegion}

\* The inputs of SpecBackend: a URL and a substring looked for in it.
BackendInputs ==
    [url : Strings(Alphabet, MaxUrlLen) \cup EndpointUrls,
     substr : Strings(Alphabet, MaxSubLen) \cup {R2Host, CentralRegion}]

\* Flag values of the runs explored by SpecBackend.
BackendConfigs ==
    {c @@ i : c \in {k \in Configs : k.initial = 1 /\ k.rangeSize = 2},
              i \in BackendInputs}

InitBackend ==
    /\ cfg \in BackendConfigs
    /\ binary \in {"microbenchmark", "validity"}
    /\ pc = "init"
    /\ backend = NoBackend
    /\ phase = "none"
    /\ cur = 0
    /\ prevLevel = NoLevel
    /\ steadyConc = NoLevel
    /\ exitCode = -1
    /\ stopChan = "open"
    /\ sigChan = 0
    /\ handlerPc = "wait"
    /\ stoppedIn = "never"
    /\ pools = <<>>
    /\ inflight = {}
    /\ issued = 0
    /\ results = <<>>
    /\ resultsClosed = FALSE
    /\ colPc = "off"
    /\ colCur = NoResult
    /\ pwBuf = <<>>
    /\ pwFile = <<>>
    /\ pwLate = <<>>
    /\ pwClosed = FALSE
    /\ pwFileClosed = FALSE
    /\ pwCloseErr = ""
    /\ promRequests = 0
    /\ promErrors = NoErrors
    /\ monitors = EmptyBag
    /\ gauges = NoGauges
    /\ objectCheck = "none"
    /\ uploads = 0
    /\ obs = NoObs

\* What the environment lets the constructor of the client do.
ClientOutcomes == {"created", "failed"}

\* main up to the creation of the client: log.Fatal for an empty URL, the
\* client chosen by isR2Endpoint and extractRegionFromURL, and the exit when
\* the credentials are missing or the constructor returns an error.  A panic
\* of contains ends the process with status 2.
SelectBackend(outcome) ==
    /\ pc = "init"
    /\ outcome \in ClientOutcomes
    /\ IF cfg.url = ""
       THEN /\ pc' = "fatal"
            /\ exitCode' = 1
            /\ UNCHANGED backend
       ELSE IF ClientFor(cfg.url).kind = "panic"
       THEN /\ pc' = "fatal"
            /\ exitCode' = 2
            /\ UNCHANGED backend
       ELSE IF outcome = "failed"
       THEN /\ pc' = "fatal"
            /\ exitCode' = 1
            /\ UNCHANGED backend
       ELSE /\ pc' = IF binary = "validity" THEN "vc_check" ELSE "check"
            /\ backend' = [backend EXCEPT !.kind = ClientFor(cfg.url).kind,
                                          !.region = ClientFor(cfg.url).region]
            /\ UNCHANGED exitCode
    /\ UNCHANGED <<cfg, monVars, binary, objectCheck, uploads, phase, cur, prevLevel,
                   steadyConc, sigVars, workVars, chanVars, colVars, pwVars,
                   promVars, obs>>

\* contains applied to the URL and the substring of the run.
ApplyContains ==
    /\ backend.found = "none"
    /\ backend' = [backend EXCEPT !.found = contains(cfg.url, cfg.substr)]
    /\ UNCHANGED <<cfg, pc, exitCode, monVars, binary, objectCheck, uploads, phase,
                   cur, prevLevel, steadyConc, sigVars, workVars, chanVars, colVars,
                   pwVars, promVars, obs>>

NextBackend ==
    \/ \E outcome \in ClientOutcomes : SelectBackend(outcome)
    \/ ApplyContains

SpecBackend == InitBackend /\ [][NextBackend]_vars

NextExporter ==
    \/ \E o \in ObjectChecks : CheckObject(o)
    \/ \E status \in ExporterStatuses : \E errMsg \in ExporterErrMsgs :
          HoldResult(status, errMsg)
    \/ \E failAt \in WriteFailures : CollectWrite(failAt)
    \/ CollectRecord
    \/ \E mbps \in {0, 100} : SetThroughput(mbps)

\* The collector and the exporter under results of every status and error
\* text.
SpecExporter == Init /\ [][NextExporter]_vars

\* Every goroutine that can take a step eventually takes one, and time
\* passes; whether a storage request ever returns is left to the backend.
Scheduling ==
    /\ WF_vars(SignalHandler)
    /\ WF_vars(Controller)
    /\ WF_vars(WorkerLoop)
    /\ WF_vars(Clock)
    /\ WF_vars(Collector)

\* Fair scheduling, a storage request being free
\* never to return.
FairSpecDrain == InitFair /\ [][Next]_vars /\ Scheduling

\* Fair scheduling, every storage request
\* returning eventually.
FairSpecRamp == InitFair /\ [][Next]_vars /\ Scheduling /\ WF_vars(Returns)

\* =========================================================================
\* Properties
\* =========================================================================

\* C1: shutdown flush.  Once ParquetWriter.Close has completed, every result
\* that was accepted into the results channel has been handed to WriteResult
\* and flushed to the file: none is still unread in the channel, none is in
\* the collector's hands, none is left in the batch.
C1_ShutdownFlush ==
    pwClosed => /\ results = <<>>
                /\ colCur = NoResult
                /\ pwBuf = <<>>

\* C2: after the stop channel is closed no worker admits a new iteration:
\* no request is issued any more, and a request in flight is ended only by
\* GetObjectRange returning to its worker, which is then back at its loop
\* head.
C2_NoAdmissionAfterStop ==
    [][Stopped =>
          (/\ issued' = issued
           /\ inflight' \subseteq inflight
           /\ \A r \in inflight \ inflight' :
                 pools'[r.pool].ready = pools[r.pool].ready + 1)]_vars

\* C2 witness: the stop channel is closed while a request admitted before the
\* signal is still in flight.
C2_Witness == Stopped /\ inflight # {} /\ issued = MaxRequests

\* C3: draining is bounded.  After the stop channel is closed the process
\* eventually ends, whether or not the requests in flight ever return.
C3_DrainBounded == Stopped ~> (pc \in {"exited", "fatal", "panic"})

\* C4: once the stop channel is closed during warmup or ramping, no workers
\* are spawned any more and the steady-state phase is not started.
C4_NoPhaseAfterStop ==
    [][(stoppedIn \in {"warmup", "ramp"}) =>
          (/\ Len(pools') <= Len(pools)
           /\ (phase' = "steady-state" => phase = "steady-state"))]_vars

Phases == {"none", "warmup", "ramp", "steady-state", "terminated"}

PhaseRank(p) ==
    CASE p = "none" -> 0
      [] p = "warmup" -> 1
      [] p = "ramp" -> 2
      [] p = "steady-state" -> 3
      [] p = "terminated" -> 4
      [] OTHER -> -1

\* C5: the controller is in exactly one phase at a time and the phase only
\* moves forward through warmup, ramp, steady-state, terminated: a phase once
\* left is never entered again, with or without cancellation.
C5_PhaseMonotonic ==
    [][(/\ phase \in Phases
        /\ phase' \in Phases
        /\ PhaseRank(phase') >= PhaseRank(phase))]_vars

\* C5 witness: a cancelled run, stopped during the ramp, that has gone
\* through steady-state and has terminated.
C5_Witness ==
    /\ phase = "terminated"
    /\ stoppedIn = "ramp"
    /\ steadyConc # NoLevel

\* C6: in every ramp that completes, each step ran at a level at least that
\* of the step before it, whatever the step size.
C6_NonDecreasing == obs.end = "done" => obs.nonDecreasing

\* What "ramping has terminated" means for a run: steady-state is entered
\* (or the run was cancelled, or it never started for want of the object).
RampOver == Stopped \/ phase = "steady-state" \/ pc = "fatal"

\* C7: without cancellation, every request returning, the ramp loop ends and
\* steady-state is entered, whatever the step size.
C7_RampTerminates == <>RampOver

\* C8: the plateau scenario (8->40, 16->75, 24->100, 32->103, 40->104 at a
\* threshold of 5%) enters steady-state at concurrency 24.
C8_PlateauScenario ==
    (cfg = PlateauConfig /\ ~Stopped /\ phase = "steady-state")
        => steadyConc = 24

\* C9: once a ramp step has grown by less than the threshold over the step
\* before it, at most one further step is started.
C9_StopsOnPlateau == obs.after <= 1

\* C10: when the ramp has reached maxConcurrency without a step ever growing
\* by less than the threshold, steady-state runs at the level that showed the
\* highest throughput.
C10_ArgmaxAtMax ==
    (/\ phase = "steady-state"
     /\ ~Stopped
     /\ obs.end = "done"
     /\ obs.n >= 1
     /\ ~obs.low)
        => steadyConc = obs.best

\* C11: after a ramp that completed, steady-state runs at one of the
\* concurrency levels the ramp actually ran, hence at a level between
\* initialConcurrency and maxConcurrency.
C11_SteadyLevelWasRun ==
    (phase = "steady-state" /\ obs.end = "done")
        => /\ steadyConc \in obs.levels
           /\ steadyConc >= cfg.initial
           /\ steadyConc <= cfg.max

\* C12: with rangeSize > objectSize the run fails before warmup: no worker
\* is ever started, no phase is entered, and the process does not end with
\* exit code 0.
C12_RangeTooLargeIsFatal ==
    (cfg.rangeSize > cfg.objectSize)
        => /\ \A i \in DOMAIN pools : pools[i].conc <= 0
           /\ phase \in {"none", "terminated"}
           /\ exitCode # 0

\* C13: with a warmup, ramp step or steady-state duration that is not
\* positive the run fails before any worker is started: no phase spawns
\* workers.
C13_NonPositiveDurationIsFatal ==
    (\/ cfg.warmupMinutes <= 0
     \/ cfg.rampStepMinutes <= 0
     \/ cfg.steadyStateHours <= 0)
        => \A i \in DOMAIN pools : pools[i].conc <= 0

\* C14: with rangeSize = objectSize the workers issue requests: a worker
\* returns from its loop only when the deadline has passed or the stop
\* channel is closed, and every request issued covers the whole object
\* (rangeStart = 0, rangeLen = objectSize).
C14_FullRangeRequests ==
    (cfg.rangeSize = cfg.objectSize)
        => /\ \A r \in inflight :
                 r.rangeStart = 0 /\ r.rangeLen = cfg.objectSize
           /\ \A i \in DOMAIN pools :
                 (/\ pools[i].conc > 0
                  /\ pools[i].ready = 0
                  /\ InFlightOf(i) = {})
                     => (pools[i].expired \/ Stopped)

\* C15: with rangeSize < objectSize, the range starts a worker about to
\* sample can draw are exactly 0 .. objectSize - rangeSize, the start of the
\* range that ends at the object's last byte included.
C15_RangeStartInterval ==
    (cfg.rangeSize < cfg.objectSize)
        => \A i \in DOMAIN pools :
              (pools[i].ready > 0 /\ Admits(pools[i]))
                  => Int63n(MaxStart) = 0 .. (cfg.objectSize - cfg.rangeSize)

\* C16: object keys rotate over a pool of several objects: two requests
\* issued one after the other never target the same key.
C16_KeysRotate ==
    \A r1, r2 \in inflight :
        r2.id = r1.id + 1 => r2.objectKey # r1.objectKey

\* Results the workers have built so far: one per request that returned.
Produced == issued - Cardinality(inflight)

\* Results the channel has accepted so far: those it holds, the one in the
\* collector's hands and those the collector has recorded.
Accepted == Len(results) + (IF colCur = NoResult THEN 0 ELSE 1) + promRequests

\* Results that met a full channel.
Dropped == Produced - Accepted

\* C17: the results channel never holds more than its capacity; a worker
\* whose request has returned can always go on, whatever the channel and the
\* collector are doing; when it offers its result to a full channel the
\* result is discarded, the queued results stay as they are and the worker is
\* back at the head of its loop.
C17_SinkNonBlocking ==
    [][(/\ Len(results) <= ChanCap
        /\ Len(results') <= ChanCap
        /\ \A r \in inflight : Running => ENABLED RequestReturns(r, TRUE)
        /\ \A r \in inflight \ inflight' :
              (~Accepts(results) /\ ~resultsClosed)
                  => /\ results' = results
                     /\ pools'[r.pool].ready = pools[r.pool].ready + 1
                     /\ colPc' = colPc
                     /\ pwBuf' = pwBuf)]_vars

\* C17 witness: a result was offered to the full channel and discarded.
C17_Witness == Len(results) = ChanCap /\ Dropped > 0

\* C18: drop accounting.  In every state the results the workers produced
\* are those the channel accepted plus those the run has counted as dropped.
C18_DropAccounting == Produced = Accepted + DropCounter

\* C19: a request that fails is neither retried nor fatal to its worker.
\* When a request returns, no request is issued in its place, its worker is
\* back at the head of its loop, and the one result offered to the channel
\* carries the request's outcome: RetryCount 0 and, on failure (the step is
\* the return of a failed call), ErrMsg set with status 500 and no bytes.  A
\* worker at the head of its loop goes on to a fresh request for as long as
\* the deadline has not passed and the stop channel is open.
C19_FailedRequestContinues ==
    [][(/\ \A r \in inflight \ inflight' :
              /\ issued' = issued
              /\ pools'[r.pool].ready = pools[r.pool].ready + 1
              /\ results' # results
                    => /\ Len(results') = Len(results) + 1
                       /\ SubSeq(results', 1, Len(results)) = results
                       /\ results'[Len(results')].id = r.id
                       /\ results'[Len(results')].retryCount = 0
                       /\ results'[Len(results')].errMsg # ""
                             => /\ results'[Len(results')].httpStatus = StatusError
                                /\ results'[Len(results')].bytes = 0
                       /\ RequestReturns(r, FALSE)
                             => results'[Len(results')].errMsg # ""
        /\ \A i \in DOMAIN pools :
              (/\ Running
               /\ pools[i].ready > 0
               /\ ~pools[i].expired
               /\ ~Stopped
               /\ cfg.rangeSize < cfg.objectSize
               /\ issued < MaxRequests)
                  => ENABLED WorkerIssue(i, 0))]_vars

\* C19 witness: the one warmup worker has had a request fail, the failure is
\* queued in the results channel, and the worker is inside its next request.
C19_Witness ==
    /\ phase = "warmup"
    /\ cfg.initial = 1
    /\ results # <<>>
    /\ Head(results).errMsg # ""
    /\ Head(results).retryCount = 0
    /\ \E r \in inflight : r.id = Head(results).id + 1

\* C20: no result is written to the Parquet file more than once, whatever
\* the sequence of WriteResult calls and whichever flush fails part-way
\* through.
C20_WrittenOnce ==
    \A i, j \in DOMAIN pwFile : i # j => pwFile[i].id # pwFile[j].id

\* C21: after every WriteResult the batch of the ParquetWriter holds at most
\* batchSize results, also when writer.Write keeps failing.
C21_BatchBounded == (colPc # "write") => Len(pwBuf) <= BatchSize

\* The monitors of a bag that stand at a position.
AtCount(ms, at) == CopiesIn(TRUE, BagOfAll(LAMBDA m : m.at = at, ms))

\* C22: a failure of the system monitor is not fatal.  A tick of a monitor
\* sets the concurrency gauge to the monitor's concurrency before
\* GetSystemStats is called, so whatever it returns; when it returns an error
\* the gauges stay as they are, and the CPU and network gauges are only
\* ever set from a sample returned without error; no step of a monitor
\* touches the controller, the workers or the results channel.
C22_MonitorFailureNotFatal ==
    [][(/\ (AtCount(monitors', "stats") > AtCount(monitors, "stats")
              => /\ \E m \in BagToSet(monitors) :
                        m.at = "select" /\ gauges'.conc = m.conc
                 /\ gauges'.cpu = gauges.cpu
                 /\ gauges'.net = gauges.net)
        /\ (AtCount(monitors', "stats") < AtCount(monitors, "stats")
              => /\ gauges' = gauges
                 /\ (obs'.sampleFailed # obs.sampleFailed
                       => AtCount(monitors', "cpu") = AtCount(monitors, "cpu")))
        /\ gauges'.cpu # "error"
        /\ gauges'.net # "error"
        /\ (gauges' # gauges \/ obs'.sampleFailed # obs.sampleFailed
              => UNCHANGED <<ctlVars, workVars, chanVars>>))]_vars

\* C22 witness: the run has gone through all its phases, GetSystemStats has
\* failed at some tick, and the concurrency gauge and the CPU gauge are set,
\* the latter from a good sample.
C22_Witness ==
    /\ phase = "terminated"
    /\ obs.sampleFailed
    /\ gauges.cpu = "ok"
    /\ gauges.conc # NoLevel

\* C23: once a phase or ramp step in which results were recorded has been
\* closed, its throughput (bytes * 8 / duration) has been pushed to the
\* throughput metric.
C23_ThroughputPushed ==
    (pools = <<>> /\ promRequests > 0) => gauges.throughput # "unset"

\* The levels capacity discovery has to test: c0, c0 + 8, c0 + 16, ... up to
\* maxConcurrency.
CapacityLevels ==
    {l \in cfg.initial .. cfg.max : (l - cfg.initial) % CapacityStep = 0}

\* C25: capacity discovery.  The validity check tests only levels
\* c0 + 8k <= maxConcurrency, each above the one before it (so each once);
\* while a level runs only its own workers are alive, those of the level
\* before it having exited; no level is tested when c0 > maxConcurrency; when
\* the loop has ended every such level has been tested; and the results
\* channel is closed only after the last level, when no worker is left.
C25_CapacityDiscovery ==
    binary = "validity" =>
        /\ obs.levels \subseteq CapacityLevels
        /\ obs.increasing
        /\ Len(pools) <= 1
        /\ \A i \in DOMAIN pools :
              /\ pools[i].conc = cur
              /\ pools[i].ready + Cardinality(InFlightOf(i)) <= (IF cur > 0 THEN cur ELSE 0)
        /\ \A r \in inflight : r.conc = cur
        /\ (cfg.initial > cfg.max => obs.levels = {})
        /\ (obs.end = "done" => obs.levels = CapacityLevels)
        /\ (resultsClosed => obs.end = "done" /\ pools = <<>> /\ inflight = {})

\* C26: test-object precondition.  Only the validity check uploads, at most
\* once and only after ObjectExists returned false without error; once a
\* worker has been started ObjectExists had returned without error, in the
\* microbenchmark it had returned true, and in the validity check the object
\* was uploaded exactly if it had returned false; an error of ObjectExists
\* ends the process, and so does a missing object in the microbenchmark.
C26_TestObjectPrecondition ==
    /\ (uploads > 0 => binary = "validity" /\ objectCheck = "missing")
    /\ uploads <= 1
    /\ ((pools # <<>> \/ issued > 0) =>
           /\ objectCheck \in {"exists", "missing"}
           /\ (binary = "microbenchmark" => objectCheck = "exists")
           /\ (binary = "validity" => (uploads = 1 <=> objectCheck = "missing")))
    /\ (objectCheck = "error" => pc = "fatal")
    /\ (binary = "microbenchmark" /\ objectCheck = "missing" => pc = "fatal")

\* The validity check has uploaded the missing object and a worker has
\* issued a request.
C26_Witness ==
    /\ binary = "validity"
    /\ objectCheck = "missing"
    /\ uploads = 1
    /\ issued > 0

\* C27: with a positive step size every level run during the ramp is above
\* the warmup level: the first ramp step runs at initialConcurrency +
\* rampStepSize.
C27_RampAboveWarmup ==
    (cfg.step > 0) => \A l \in obs.levels : l > cfg.initial

\* Pool i has workers that have not returned.
Live(i) == pools[i].ready > 0 \/ InFlightOf(i) # {}

\* C28: the live workers are at most as many as the concurrency of the phase
\* or step started last, and workers of one phase or step are never alive
\* together with those of a later one, cancellation in the middle of a ramp
\* step included.
C28_OneStepAlive ==
    /\ \A i, j \in DOMAIN pools : (i # j) => ~(Live(i) /\ Live(j))
    /\ (pools # <<>> /\ pools[Len(pools)].conc >= 0)
          => WaitGroupCount <= pools[Len(pools)].conc

\* Multiples of the step size a level is compared with.
MaxSteps == 2 ^ IntBits

\* C29: no ramp step runs above maxConcurrency, every level run is
\* initialConcurrency + k * rampStepSize for some k >= 0, and no step runs
\* when initialConcurrency > maxConcurrency.
C29_RampLevels ==
    /\ \A l \in obs.levels :
          /\ l <= cfg.max
          /\ \E k \in 0 .. MaxSteps : l = cfg.initial + k * cfg.step
    /\ (cfg.initial > cfg.max) => obs.levels = {}

\* C30: results are offered step by step.  When a request returns and its
\* result is offered, no request of an earlier phase or step is still in
\* flight and no worker of an earlier phase or step can issue another one;
\* the result's Concurrency is the concurrency of the step whose worker
\* issued the request, a step the run has not yet left behind.
C30_StepOrdering ==
    [][(\A r \in inflight \ inflight' :
          /\ r.pool \in DOMAIN pools
          /\ \A q \in inflight : q.pool >= r.pool
          /\ \A i \in 1 .. (r.pool - 1) :
                pools[i].ready = 0 \/ ~Admits(pools[i])
          /\ r.conc = pools[r.pool].conc
          /\ (results' # results)
                => results'[Len(results')].concurrency = pools[r.pool].conc)]_vars

\* C30 witness: the run was cancelled in the middle of a ramp step, the
\* steady-state workers have been started, and the ramp step's worker has
\* offered the result of the last request and is back at its loop head.
C30_Witness ==
    /\ stoppedIn = "ramp"
    /\ Len(pools) = 2
    /\ pools[2].phase = "steady-state"
    /\ pools[1].conc = 1
    /\ pools[1].ready = 1
    /\ results # <<>>
    /\ Head(results).id = issued
    /\ Head(results).concurrency = 1

\* C31: no send after close.  In both programs the results channel is closed
\* only when every worker has returned (none stands at the head of its loop,
\* none is inside a request), no worker ever sends on the closed channel
\* (which would panic), and once closed the channel is not closed again.
C31_NoSendAfterClose ==
    /\ (resultsClosed =>
           /\ \A i \in DOMAIN pools : pools[i].ready = 0
           /\ inflight = {})
    /\ pc # "panic"
    /\ (resultsClosed =>
           pc \in {"cleanup_wait", "return", "vc_return", "vc_exit", "exited"})

\* The microbenchmark was cancelled in the middle of a ramp step, a worker of
\* that step had issued a request, and the results channel has been closed.
C31_Witness ==
    /\ binary = "microbenchmark"
    /\ obs.end = "stopped"
    /\ issued > 0
    /\ resultsClosed

\* C32: the stop channel is closed at most once.  Only the signal goroutine
\* closes it, on the signal it was waiting for; once the channel is closed it
\* stays closed and the goroutine has returned, so that a later signal closes
\* nothing (and cannot panic on a closed channel).
C32_StopClosedOnce ==
    [][(/\ (stopChan = "closed" => stopChan' = "closed" /\ handlerPc' = "done")
        /\ (stopChan' # stopChan => handlerPc = "wait" /\ sigChan = 1 /\ stopChan = "open")
        /\ pc' # "panic")]_vars

\* A signal has arrived after the stop channel was closed.
C32_Witness ==
    /\ stopChan = "closed"
    /\ handlerPc = "done"
    /\ sigChan = 1

\* C33: outcome classification.  Every result in the results channel has
\* HTTPStatus 200 or 500; it has 500 exactly when it carries the text of an
\* error, and then Bytes is 0; RetryCount is 0; ConnID equals ThreadID, which
\* lies in 0 .. Concurrency - 1.
C33_OutcomeClassification ==
    \A k \in 1 .. Len(results) :
        LET x == results[k] IN
        /\ x.httpStatus \in {200, 500}
        /\ (x.httpStatus = 500 <=> x.errMsg # "")
        /\ (x.httpStatus = 500 => x.bytes = 0)
        /\ x.retryCount = 0
        /\ x.connID = x.threadID
        /\ x.threadID \in 0 .. (x.concurrency - 1)

\* The channel holds the result of a failed request of the validity check.
C33_Witness ==
    /\ binary = "validity"
    /\ results # <<>>
    /\ Head(results).httpStatus = 500

\* C34: requests stay inside the object.  With objectSize > rangeSize >= 1,
\* every request in flight starts at or after byte 0, asks for rangeSize
\* bytes (the cut to the object's end has not changed the length) and ends
\* within the object.
C34_RangeInsideObject ==
    (cfg.objectSize > cfg.rangeSize /\ cfg.rangeSize >= 1)
        => \A r \in inflight :
              /\ 0 <= r.rangeStart
              /\ r.rangeLen = cfg.rangeSize
              /\ r.rangeStart + r.rangeLen <= cfg.objectSize

\* A request of the validity check that does not start at byte 0 is in
\* flight.
C34_Witness ==
    /\ binary = "validity"
    /\ cfg.objectSize > cfg.rangeSize
    /\ \E r \in inflight : r.rangeStart > 0

\* Requests the error counter has counted, over its error types.
ErrorsTotal(errors) == errors.request_error + errors.http_error

\* C35: exporter counters.  Each RecordRequest adds one to the request
\* counter; it adds one to the error counter of type request_error when the
\* result has an error text, else one to that of type http_error when the
\* status is 400 or above, else nothing; the errors counted never exceed the
\* requests counted.
C35_ExporterCounters ==
    [][(((colPc = "record" /\ colPc' # "record")
            \/ promRequests' # promRequests \/ promErrors' # promErrors)
          => /\ colPc = "record"
             /\ promRequests' = promRequests + 1
             /\ promErrors'.request_error = promErrors.request_error
                    + (IF colCur.errMsg # "" THEN 1 ELSE 0)
             /\ promErrors'.http_error = promErrors.http_error
                    + (IF colCur.errMsg = "" /\ colCur.httpStatus >= 400 THEN 1 ELSE 0)
             /\ ErrorsTotal(promErrors') <= promRequests')]_vars

\* An error of each type has been recorded.
C35_Witness ==
    /\ promErrors.request_error > 0
    /\ promErrors.http_error > 0

\* C37: Close ordering and error outcome.  When Close returns, the file has
\* been closed only if the writer has been stopped, and the writer has been
\* stopped only if the flush before it has written the whole batch and
\* emptied it; Close returns nil exactly when the file has been closed; when
\* the flush fails Close returns its error, the writer is not stopped, the
\* file is not closed and the batch is as it was.
C37_CloseOrdering ==
    [][((pwCloseErr' # pwCloseErr)
          => /\ (pwFileClosed' => pwClosed')
             /\ (pwClosed' => pwBuf' = <<>> /\ pwFile' = pwFile \o pwBuf)
             /\ (pwCloseErr' = "nil" <=> pwFileClosed')
             /\ (pwCloseErr' = "flush"
                   => /\ ~pwClosed'
                      /\ ~pwFileClosed'
                      /\ pwBuf # <<>>
                      /\ pwBuf' = pwBuf)
             /\ (pwCloseErr' = "stop" => pwBuf' = <<>> /\ ~pwClosed' /\ ~pwFileClosed'))]_vars

\* Close has returned the error of its flush, with a result left in the batch.
C37_Witness ==
    /\ pwCloseErr = "flush"
    /\ pwBuf # <<>>
    /\ ~pwClosed

\* The results the channel has accepted that have not been lost, from the
\* oldest to the newest: those written to the file, those handed to the
\* writer after it was stopped, the batch, the one the collector has received
\* and not yet handed to the writer, and those waiting in the channel.
Pipeline ==
    pwFile \o pwLate \o pwBuf
        \o (IF colPc = "write" THEN <<colCur>> ELSE <<>>) \o results

\* s is a prefix of t.
IsPrefix(s, t) == Len(s) <= Len(t) /\ SubSeq(t, 1, Len(s)) = s

IsSubstring(s, sub) ==
    \E i \in 0 .. (Len(s) - Len(sub)) : SubSeq(s, i + 1, i + Len(sub)) = sub

\* C38: contains(s, sub) returns true exactly when sub is a contiguous
\* substring of s, for the empty sub and for an s shorter than sub too, and it
\* never indexes out of range; so the R2 client is chosen iff the URL contains
\* "r2.cloudflarestorage.com", and otherwise the S3 client, of region
\* eu-central-1 iff the URL contains "eu-central-1" and of us-east-1 if not.
C38_BackendSelection ==
    /\ (backend.found # "none" =>
           backend.found = (IF IsSubstring(cfg.url, cfg.substr)
                            THEN "true" ELSE "false"))
    /\ backend.found # "panic"
    /\ exitCode # 2
    /\ (backend.kind # "none" =>
           /\ backend.kind \in {"r2", "s3"}
           /\ (backend.kind = "r2" <=> IsSubstring(cfg.url, R2Host))
           /\ (backend.kind = "s3" =>
                  backend.region = (IF IsSubstring(cfg.url, CentralRegion)
                                    THEN CentralRegion ELSE DefaultRegion)))

\* The S3 client of eu-central-1 has been chosen for a URL that has the region
\* neither at its start nor at its end, and contains has found a substring
\* that is neither a prefix nor a suffix of the URL.
C38_Witness ==
    /\ backend.kind = "s3"
    /\ backend.region = CentralRegion
    /\ cfg.url = "https://s3.eu-central-1.amazonaws.com"
    /\ cfg.substr = CentralRegion
    /\ backend.found = "true"

\* C39: the concurrency gauge is only ever set to the concurrency of the
\* step that is running: once the next phase or step has started its pool, a
\* monitor started for an earlier one no longer sets the gauge, so every
\* value written while a pool runs is the concurrency of the pool started
\* last.
C39_GaugeOfCurrentStep ==
    [][((gauges'.conc # gauges.conc /\ pools # <<>>)
          => gauges'.conc = pools[Len(pools)].conc)]_vars

====
